---- MODULE Spec2Model ----
(***************************************************************************)
(* A model of discogs-to-musicbrainz:                                      *)
(*   load-into-musicbrainz.py  the importer (resolution cascade, fuzzy     *)
(*                             search, collection creation, chunked PUTs)  *)
(*   export-from-discogs.py    the exporter (429 retry, pagination loops)  *)
(*                                                                         *)
(* External services (MusicBrainz, Discogs) are the environment: each call *)
(* draws its response from a bounded set at the moment the code makes it.  *)
(* An input the code reads exactly once (a command-line flag, a file       *)
(* entry) is likewise drawn at the moment it is read.                      *)
(***************************************************************************)
EXTENDS Integers, Sequences, FiniteSets, TLC

VARIABLES
    \* ---- importer: program position and locals
    pc,               \* position of the importer
    caller,           \* who called lookup_master_mbid: "ratings" | "collection" | "unit"
    target,           \* which collection import runs: "owned" | "wishlist" | "none"
    todo,             \* entries of the loaded file not yet iterated
    discog_entry,     \* the entry lookup_master_mbid works on
    master_id,        \* lookup_master_mbid: master_id
    release_id,       \* lookup_master_mbid: release_id
    artist_ids,       \* lookup_master_mbid: artist_ids
    artno,            \* search_release_group_by_artists: position in artist_mbids
    rg_results,       \* search_release_group_by_artists: rg_results
    results,          \* lookup_master_mbid: results
    err,              \* the exception that ended the run ("none" while running)
    printed,          \* ids of the candidates printed by lines 101-102
    collection_name,  \* import_to_collection: collection_name
    collection,       \* import_to_collection: collection (its id, NULL for None)
    release_groups,   \* the list handed to add_release_groups_to_collection
    release_group_ratings, \* import_ratings: the dict under construction
    index,            \* add_release_groups_to_collection: index
    \* ---- MusicBrainz, as the importer sees it
    collections,      \* the user's collections: a sequence of names, id = position
    \* ---- history of the calls made to MusicBrainz
    calls,            \* calls of the current lookup_master_mbid
    puts,             \* PUT requests of the current add_release_groups_to_collection
    createLog,        \* create_collection calls of the run
    \* ---- exporter: program position and locals
    epc,              \* position of the exporter
    ret_to,           \* where the running _get returns to
    url,              \* _get: url, as the listing and the page it names
    resp,             \* _get: resp, as its status code
    depth,            \* _get: how many calls of itself the running _get is inside
    slept,            \* seconds the running _get has spent in time.sleep
    pagenum,          \* _iter_pages: pagenum
    all_items,        \* DiscogsHtmlClient._iter_pages: all_items
    release_info,     \* _collect_release_info: the entries _iter_pages has yielded
    requested,        \* the page numbers the running _iter_pages has called api_func with
    eerr,             \* the exception that ended the export ("none" while running)
    \* ---- Discogs, as the exporter sees it
    listing,          \* the listing being exported: "ratings" | "collection" | "wantlist"
    total,            \* how many items that listing has
    pages             \* the page count the REST API reports for it

impVars == <<pc, caller, target, todo, discog_entry, master_id, release_id,
             artist_ids, artno, rg_results, results, err, printed,
             collection_name, collection, release_groups,
             release_group_ratings, index, collections, calls, puts, createLog>>
expVars == <<epc, ret_to, url, resp, depth, slept, pagenum, all_items, release_info,
             requested, eerr, listing, total, pages>>
vars == <<impVars, expVars>>

----------------------------------------------------------------------------
\* Bounds of the model.
MaxArtists == 2      \* artists of one entry (lookup_master_mbid alone)
MaxCands == 3        \* candidates in one search response (lookup_master_mbid alone)
RunMaxArtists == 1   \* artists of one entry (whole import run)
RunMaxCands == 2     \* candidates in one search response (whole import run)
MaxMbid == 2         \* distinct MBIDs an external-link relation can point at
MaxRels == 2         \* relations in one browse_urls response
MaxReleases == 2     \* entries in one exported file
MaxGroups == 450     \* identifiers handed to add_release_groups_to_collection alone
PerPage == 2         \* items Discogs puts on one page (the code asks for 500)
MaxItems == 5        \* items of one Discogs listing
MaxRetries == 2      \* 429 answers in a row to one _get
MaxPagenum == 4      \* REST page numbers told apart; above it, one value

\* Python's None; every MBID is a non-empty string, modelled as a positive number.
NULL == 0
chunk_size == 200

Mbids == 1..MaxMbid
\* Search scores (ext:score): one below the threshold of 75, one above the
\* threshold of 95, and four between them.
Scores == {70, 78, 80, 82, 92, 96}
Names == {"Owned", "Wishlist"}
Ratings == {1, 4}

Min(a, b) == IF a < b THEN a ELSE b
Range(s) == {s[i] : i \in DOMAIN s}
SeqsUpTo(S, n) == UNION {[1..m -> S] : m \in 0..n}

RECURSIVE SelectIdx(_, _, _)
\* The subsequence of s at the positions (in order, from i on) where keep holds.
SelectIdx(s, keep, i) ==
    IF i > Len(s) THEN <<>>
    ELSE (IF keep[i] THEN <<s[i]>> ELSE <<>>) \o SelectIdx(s, keep, i + 1)

----------------------------------------------------------------------------
\* An exported entry: whether release.master_url is set, and how many artists.
\* Its keys are those the exporter writes: "artists", "release" (and "rating").
\* rating is NULL in collection.json and wantlist.json, whose entries have none.
Entries(maxArtists, ratings) ==
    [master_url : BOOLEAN, artists : 0..maxArtists, rating : ratings]
EntryKeys == {"artists", "release", "rating"}
NoEntry == [master_url |-> FALSE, artists |-> 0, rating |-> NULL]

\* A browse_urls response: a ResponseError, or the url's relation list.
Relations == [type : {"discogs", "other"}, id : Mbids]
BrowseResponses == {<<"ResponseError">>} \cup {<<"ok", l>> : l \in SeqsUpTo(Relations, MaxRels)}

RECURSIVE FirstDiscogs(_, _)
\* next((relation for relation in relation_list if relation["type"] == "discogs"), None)
FirstDiscogs(relation_list, i) ==
    IF i > Len(relation_list) THEN NULL
    ELSE IF relation_list[i].type = "discogs" THEN relation_list[i].id
    ELSE FirstDiscogs(relation_list, i + 1)

\* lookup_mbid_by_discog_url, given what browse_urls answered.
lookup_mbid_by_discog_url(result) ==
    IF result[1] = "ResponseError" THEN NULL
    ELSE FirstDiscogs(result[2], 1)

\* One release group of a search response: the p-th answer to the search for
\* artist number a, with score s. Its id is made of a and p.
ReleaseGroup(a, p, s) ==
    ("title" :> 100 + 10 * a + p) @@ ("artist-credit-phrase" :> 200 + a)
      @@ ("id" :> 10 * a + p) @@ ("ext:score" :> s)

\* search_results["release-group-list"] for a response given as its scores.
ReleaseGroupList(a, scores) == [p \in 1..Len(scores) |-> ReleaseGroup(a, p, scores[p])]

release_group_info(release_group) ==
    ("name" :> release_group["title"])
      @@ ("artist" :> release_group["artist-credit-phrase"])
      @@ ("id" :> release_group["id"])

\* The call history of one lookup_master_mbid.
Call(fn, arg, ret, scores) == [fn |-> fn, arg |-> arg, ret |-> ret, scores |-> scores]

----------------------------------------------------------------------------
\* sorted(rg_results, key=lambda rg: int(rg["ext:score"]), reverse=True)
\* evaluates the key of every element; an element without the key raises.
SortKeyDefined(rg) == "ext:score" \in DOMAIN rg

RECURSIVE InsertDesc(_, _)
\* x put into the descending sequence s after every element not smaller
\* (sorted is stable, also with reverse=True).
InsertDesc(s, x) ==
    IF s = <<>> THEN <<x>>
    ELSE IF s[1]["ext:score"] >= x["ext:score"] THEN <<s[1]>> \o InsertDesc(Tail(s), x)
    ELSE <<x>> \o s

RECURSIVE SortedDesc(_)
SortedDesc(s) ==
    IF s = <<>> THEN <<>>
    ELSE InsertDesc(SortedDesc(SubSeq(s, 1, Len(s) - 1)), s[Len(s)])

\* The locals of a lookup_master_mbid call, as they are before its first line.
LookupLocals ==
    /\ master_id' = NULL
    /\ release_id' = NULL
    /\ artist_ids' = <<>>
    /\ artno' = 1
    /\ rg_results' = <<>>
    /\ results' = <<>>
    /\ calls' = <<>>

\* An uncaught exception: nothing in the importer catches it, the run ends.
Raise(e) == pc' = "raised" /\ err' = e

runVars == <<caller, target, todo, collection_name, collection, release_groups,
             release_group_ratings, index, collections, puts, createLog>>

\* A variant of line 89 that forgets the test of master_id.
NeedStrategy2Always == TRUE
\* line 89
NeedStrategy2 == master_id = NULL
\* line 94
NeedStrategy3 == master_id = NULL
\* line 56
Unambiguous(release_group_list) == release_group_list[1]["ext:score"] > 95
\* line 59
Qualifies(rg) == rg["ext:score"] >= 75

\* lookup_master_mbid, lines 85-88: strategy 1, the master's own link.
LookupMaster ==
    /\ pc = "lookup_master"
    /\ IF discog_entry.master_url
         THEN \E result \in BrowseResponses :
                LET id == lookup_mbid_by_discog_url(result) IN
                /\ master_id' = id
                /\ calls' = Append(calls, Call("browse_urls:release-group", NULL, id, <<>>))
         ELSE UNCHANGED <<master_id, calls>>
    /\ pc' = "lookup_release"
    /\ UNCHANGED <<discog_entry, release_id, artist_ids, artno, rg_results, results,
                   err, printed, runVars, expVars>>

\* lookup_master_mbid, lines 89-93: strategy 2, the release's link, then its group.
LookupRelease ==
    /\ pc = "lookup_release"
    /\ IF NeedStrategy2
         THEN \E result \in BrowseResponses, rg \in Mbids :
                LET rid == lookup_mbid_by_discog_url(result)
                    c1 == Call("browse_urls:release", NULL, rid, <<>>)
                    c2 == Call("get_release_by_id", rid, rg, <<>>)
                IN  /\ release_id' = rid
                    /\ IF rid # NULL
                         THEN master_id' = rg /\ calls' = calls \o <<c1, c2>>
                         ELSE master_id' = master_id /\ calls' = Append(calls, c1)
         ELSE UNCHANGED <<release_id, master_id, calls>>
    /\ pc' = "lookup_artists"
    /\ UNCHANGED <<discog_entry, artist_ids, artno, rg_results, results,
                   err, printed, runVars, expVars>>

\* lookup_master_mbid, line 94: with a master_id there is no strategy 3.
SkipStrategy3 ==
    /\ pc = "lookup_artists"
    /\ ~NeedStrategy3
    /\ pc' = "return"
    /\ UNCHANGED <<discog_entry, master_id, release_id, artist_ids, artno, rg_results,
                   results, err, printed, calls, runVars, expVars>>

\* lookup_artist_mbids, line 76: one element of the list comprehension. Every
\* artist of the entry gets an element, None when the lookup finds nothing.
LookupArtist ==
    /\ pc = "lookup_artists"
    /\ NeedStrategy3
    /\ Len(artist_ids) < discog_entry.artists
    /\ \E result \in BrowseResponses :
         LET id == lookup_mbid_by_discog_url(result) IN
         /\ artist_ids' = Append(artist_ids, id)
         /\ calls' = Append(calls, Call("browse_urls:artist", NULL, id, <<>>))
    /\ UNCHANGED <<pc, discog_entry, master_id, release_id, artno, rg_results, results,
                   err, printed, runVars, expVars>>

\* lines 95-96, 52: the list is complete, search_release_group_by_artists starts.
StartSearch ==
    /\ pc = "lookup_artists"
    /\ NeedStrategy3
    /\ Len(artist_ids) = discog_entry.artists
    /\ pc' = "search"
    /\ artno' = 1
    /\ rg_results' = <<>>
    /\ UNCHANGED <<discog_entry, master_id, release_id, artist_ids, results,
                   err, printed, calls, runVars, expVars>>

\* search_release_group_by_artists, lines 53-59: one turn of the loop over
\* artist_mbids, the search answering with one of `responses` (lists of scores).
SearchArtist(responses) ==
    /\ pc = "search"
    /\ artno <= Len(artist_ids)
    /\ \E scores \in responses :
         LET release_group_list == ReleaseGroupList(artno, scores)
             keep == [p \in 1..Len(scores) |-> Qualifies(release_group_list[p])]
             infos == [p \in 1..Len(scores) |-> release_group_info(release_group_list[p])]
         IN  /\ calls' = Append(calls,
                     Call("search_release_groups", artist_ids[artno], NULL, scores))
             /\ IF release_group_list = <<>>
                  THEN /\ Raise("IndexError")     \* release_group_list[0]
                       /\ UNCHANGED <<results, rg_results, artno>>
                  ELSE IF Unambiguous(release_group_list)
                  THEN /\ results' = <<release_group_info(release_group_list[1])>>
                       /\ pc' = "results"
                       /\ UNCHANGED <<rg_results, artno, err>>
                  ELSE /\ rg_results' = rg_results \o SelectIdx(infos, keep, 1)
                       /\ artno' = artno + 1
                       /\ UNCHANGED <<pc, results, err>>
    /\ UNCHANGED <<discog_entry, master_id, release_id, artist_ids, printed,
                   runVars, expVars>>

\* line 54 with arid=None: the library may refuse a field that is no string.
SearchRefused ==
    /\ pc = "search"
    /\ artno <= Len(artist_ids)
    /\ artist_ids[artno] = NULL
    /\ calls' = Append(calls, Call("search_release_groups", NULL, NULL, <<>>))
    /\ Raise("TypeError")
    /\ UNCHANGED <<discog_entry, master_id, release_id, artist_ids, artno, rg_results,
                   results, printed, runVars, expVars>>

\* search_release_group_by_artists, line 61: after the loop, the sort.
SortResults ==
    /\ pc = "search"
    /\ artno > Len(artist_ids)
    /\ IF \A i \in DOMAIN rg_results : SortKeyDefined(rg_results[i])
         THEN results' = SortedDesc(rg_results) /\ pc' = "results" /\ err' = err
         ELSE Raise("KeyError") /\ results' = results
    /\ UNCHANGED <<discog_entry, master_id, release_id, artist_ids, artno, rg_results,
                   printed, calls, runVars, expVars>>

\* lookup_master_mbid, lines 97-102: one result is taken, otherwise the
\* candidates are printed under a heading that reads discog_entry['artist'].
HandleResults ==
    /\ pc = "results"
    /\ IF Len(results) = 1
         THEN /\ master_id' = results[1]["id"]
              /\ pc' = "return"
              /\ UNCHANGED <<printed, err>>
         ELSE IF "artist" \in EntryKeys
         THEN /\ printed' = [i \in DOMAIN results |-> results[i]["id"]]
              /\ pc' = "return"
              /\ UNCHANGED <<master_id, err>>
         ELSE /\ Raise("KeyError")
              /\ UNCHANGED <<master_id, printed>>
    /\ UNCHANGED <<discog_entry, release_id, artist_ids, artno, rg_results, results,
                   calls, runVars, expVars>>

----------------------------------------------------------------------------
NoUrl == [listing |-> "none", pagenum |-> 0]

ExporterIdle ==
    /\ epc = "idle"
    /\ ret_to = "none"
    /\ url = NoUrl
    /\ resp = 0
    /\ depth = 0
    /\ slept = 0
    /\ pagenum = 1
    /\ all_items = <<>>
    /\ release_info = <<>>
    /\ requested = <<>>
    /\ eerr = "none"
    /\ listing = "none"
    /\ total = 0
    /\ pages = 0

RECURSIVE FirstNamed(_, _, _)
\* next((collection for collection in collections if collection["name"] == name), None),
\* as the id of the collection found.
FirstNamed(colls, name, i) ==
    IF i > Len(colls) THEN NULL
    ELSE IF colls[i] = name THEN i
    ELSE FirstNamed(colls, name, i + 1)

\* A variant of mb_collection that looks at the first collection only.
mb_collection_first_only(colls, name) ==
    IF colls # <<>> /\ colls[1] = name THEN 1 ELSE NULL

\* mb_collection: the first of the user's collections with this very name.
mb_collection(colls, name) == FirstNamed(colls, name, 1)

\* The importer with nothing called yet: at position p, with entry e at hand,
\* the user having the collections colls, and rgs the list to submit to coll.
ImporterAt(p, e, colls, coll, rgs) ==
    /\ pc = p
    /\ caller = "unit"
    /\ target = "none"
    /\ todo = 0
    /\ discog_entry = e
    /\ master_id = NULL
    /\ release_id = NULL
    /\ artist_ids = <<>>
    /\ artno = 1
    /\ rg_results = <<>>
    /\ results = <<>>
    /\ err = "none"
    /\ printed = <<>>
    /\ collection_name = "none"
    /\ collection = coll
    /\ release_groups = rgs
    /\ release_group_ratings = <<>>
    /\ index = 0
    /\ collections = colls
    /\ calls = <<>>
    /\ puts = <<>>
    /\ createLog = <<>>

\* Python's s[a:b] on a sequence (a, b >= 0): positions a+1 .. min(b, len(s)).
PySlice(s, a, b) == SubSeq(s, a + 1, Min(b, Len(s)))

\* The chunk add_release_groups_to_collection takes at `index` (line 28).
Chunk(list, i) == PySlice(list, i, i + chunk_size + 1)

\* d[key] = value on a dict kept as a function.
DictSet(d, key, value) ==
    [x \in (DOMAIN d) \cup {key} |-> IF x = key THEN value ELSE d[x]]

lookupVars == <<discog_entry, master_id, release_id, artist_ids, artno, rg_results,
                results, calls>>

\* What follows an import_to_collection in import_to_musicbrainz (lines 191-194).
AfterImport == IF target = "owned" THEN "main_wishlist" ELSE "done"

\* import_to_musicbrainz, lines 189-190, and import_ratings, line 170:
\* with load_ratings the ratings file is loaded.
MainRatings ==
    /\ pc = "main_ratings"
    /\ \E load_ratings \in BOOLEAN, n \in 0..MaxReleases :
         IF load_ratings
         THEN pc' = "ratings_loop" /\ todo' = n
         ELSE pc' = "main_owned" /\ todo' = todo
    /\ release_group_ratings' = <<>>
    /\ UNCHANGED <<caller, target, lookupVars, err, printed, collection_name, collection,
                   release_groups, index, collections, puts, createLog, expVars>>

\* import_ratings, line 171: the comprehension takes the next entry and
\* calls lookup_master_mbid on it.
RatingsNext ==
    /\ pc = "ratings_loop"
    /\ todo > 0
    /\ \E e \in Entries(RunMaxArtists, Ratings) : discog_entry' = e
    /\ todo' = todo - 1
    /\ caller' = "ratings"
    /\ LookupLocals
    /\ pc' = "lookup_master"
    /\ UNCHANGED <<target, err, printed, collection_name, collection, release_groups,
                   release_group_ratings, index, collections, puts, createLog, expVars>>

\* import_ratings, line 171: lookup_master_mbid returned (its locals are gone);
\* an entry with a master_mbid gets its key, int(rating) * 20.
ReturnToRatings ==
    /\ pc = "return"
    /\ caller = "ratings"
    /\ release_group_ratings' =
         IF master_id # NULL
         THEN DictSet(release_group_ratings, master_id, discog_entry.rating * 20)
         ELSE release_group_ratings
    /\ pc' = "ratings_loop"
    /\ discog_entry' = NoEntry
    /\ LookupLocals
    /\ UNCHANGED <<caller, target, todo, err, printed, collection_name,
                   collection, release_groups, index, collections, puts, createLog,
                   expVars>>

\* import_ratings, line 172: submit_ratings, and back in import_to_musicbrainz.
SubmitRatings ==
    /\ pc = "ratings_loop"
    /\ todo = 0
    /\ pc' = "main_owned"
    /\ release_group_ratings' = <<>>
    /\ UNCHANGED <<caller, target, todo, lookupVars, err, printed, collection_name,
                   collection, release_groups, index, collections, puts, createLog,
                   expVars>>

\* import_to_musicbrainz, lines 191-192, import_to_owned, lines 179-180.
MainOwned ==
    /\ pc = "main_owned"
    /\ \E load_owned \in BOOLEAN, owned_name \in Names, n \in 0..MaxReleases :
         IF load_owned
         THEN /\ pc' = "mb_collection"
              /\ target' = "owned"
              /\ collection_name' = owned_name
              /\ todo' = n
         ELSE /\ pc' = "main_wishlist"
              /\ UNCHANGED <<target, collection_name, todo>>
    /\ UNCHANGED <<caller, lookupVars, err, printed, collection, release_groups,
                   release_group_ratings, index, collections, puts, createLog, expVars>>

\* import_to_musicbrainz, lines 193-194, import_to_wishlist, lines 175-176.
MainWishlist ==
    /\ pc = "main_wishlist"
    /\ \E load_wishlist \in BOOLEAN, wishlist_name \in Names, n \in 0..MaxReleases :
         IF load_wishlist
         THEN /\ pc' = "mb_collection"
              /\ target' = "wishlist"
              /\ collection_name' = wishlist_name
              /\ todo' = n
         ELSE /\ pc' = "done"
              /\ UNCHANGED <<target, collection_name, todo>>
    /\ UNCHANGED <<caller, lookupVars, err, printed, collection, release_groups,
                   release_group_ratings, index, collections, puts, createLog, expVars>>

\* import_to_collection, lines 159-160.
FindCollection ==
    /\ pc = "mb_collection"
    /\ collection' = mb_collection(collections, collection_name)
    /\ pc' = IF collection' = NULL THEN "create_collection" ELSE "resolve_loop"
    /\ release_groups' = <<>>
    /\ UNCHANGED <<caller, target, todo, lookupVars, err, printed, collection_name,
                   release_group_ratings, index, collections, puts, createLog, expVars>>

\* import_to_collection, lines 161-165: create_collection posts the web
\* form, which adds the collection or, on any failure of the web session,
\* does not; then mb_collection again, and a skip when it still finds none.
CreateCollection ==
    /\ pc = "create_collection"
    /\ \E created \in BOOLEAN :
         /\ collections' = IF created THEN Append(collections, collection_name)
                                      ELSE collections
         /\ createLog' = Append(createLog,
                [name |-> collection_name,
                 by |-> target,
                 existed |-> collection_name \in Range(collections),
                 created |-> created])
    /\ collection' = mb_collection(collections', collection_name)
    /\ pc' = IF collection' = NULL THEN AfterImport ELSE "resolve_loop"
    /\ UNCHANGED <<caller, target, todo, lookupVars, err, printed, collection_name,
                   release_groups, release_group_ratings, index, puts, expVars>>

\* import_to_collection, line 166: the comprehension takes the next entry.
ResolveNext ==
    /\ pc = "resolve_loop"
    /\ todo > 0
    /\ \E e \in Entries(RunMaxArtists, {NULL}) : discog_entry' = e
    /\ todo' = todo - 1
    /\ caller' = "collection"
    /\ LookupLocals
    /\ pc' = "lookup_master"
    /\ UNCHANGED <<target, err, printed, collection_name, collection, release_groups,
                   release_group_ratings, index, collections, puts, createLog, expVars>>

\* import_to_collection, line 166: lookup_master_mbid returned (its locals are
\* gone); only a master_mbid that is not None goes into release_groups.
ReturnToCollection ==
    /\ pc = "return"
    /\ caller = "collection"
    /\ release_groups' = IF master_id # NULL THEN Append(release_groups, master_id)
                                              ELSE release_groups
    /\ pc' = "resolve_loop"
    /\ discog_entry' = NoEntry
    /\ LookupLocals
    /\ UNCHANGED <<caller, target, todo, err, printed, collection_name,
                   collection, release_group_ratings, index, collections, puts, createLog,
                   expVars>>

\* import_to_collection, line 167: add_release_groups_to_collection is called.
ResolveDone ==
    /\ pc = "resolve_loop"
    /\ todo = 0
    /\ pc' = "add_release_groups"
    /\ index' = 0
    /\ puts' = <<>>
    /\ UNCHANGED <<caller, target, todo, lookupVars, err, printed, collection_name,
                   collection, release_groups, release_group_ratings, collections,
                   createLog, expVars>>

\* add_release_groups_to_collection, lines 27-31: one turn of the loop, one PUT.
AddChunk ==
    /\ pc = "add_release_groups"
    /\ index < Len(release_groups)
    /\ puts' = Append(puts, [collection |-> collection, index |-> index,
                              chunk |-> Chunk(release_groups, index)])
    /\ index' = index + chunk_size
    /\ UNCHANGED <<pc, caller, target, todo, lookupVars, err, printed, collection_name,
                   collection, release_groups, release_group_ratings, collections,
                   createLog, expVars>>

\* add_release_groups_to_collection, line 27: range() is exhausted.
AddDone ==
    /\ pc = "add_release_groups"
    /\ index >= Len(release_groups)
    /\ pc' = "added"
    /\ UNCHANGED <<caller, target, todo, lookupVars, err, printed, collection_name,
                   collection, release_groups, release_group_ratings, index, collections,
                   puts, createLog, expVars>>

\* import_to_collection returns to import_to_musicbrainz; its locals are gone.
ImportReturn ==
    /\ pc = "added"
    /\ pc' = AfterImport
    /\ release_groups' = <<>>
    /\ index' = 0
    /\ puts' = <<>>
    /\ collection' = NULL
    /\ UNCHANGED <<caller, target, todo, lookupVars, err, printed, collection_name,
                   release_group_ratings, collections, createLog, expVars>>

\* import_to_musicbrainz from its first line, the user having any collections.
Init ==
    /\ \E colls \in SeqsUpTo(Names, 2) : ImporterAt("main_ratings", NoEntry, colls, NULL, <<>>)
    /\ ExporterIdle

Next ==
    \/ MainRatings
    \/ RatingsNext
    \/ ReturnToRatings
    \/ SubmitRatings
    \/ MainOwned
    \/ MainWishlist
    \/ FindCollection
    \/ CreateCollection
    \/ ResolveNext
    \/ ReturnToCollection
    \/ ResolveDone
    \/ AddChunk
    \/ AddDone
    \/ ImportReturn
    \/ LookupMaster
    \/ LookupRelease
    \/ SkipStrategy3
    \/ LookupArtist
    \/ StartSearch
    \/ SearchArtist(SeqsUpTo(Scores, RunMaxCands))
    \/ SearchRefused
    \/ SortResults
    \/ HandleResults

Spec == Init /\ [][Next]_vars

\* lookup_master_mbid alone, on any entry.
InitLookup ==
    /\ \E e \in Entries(MaxArtists, {NULL}) : ImporterAt("lookup_master", e, <<>>, NULL, <<>>)
    /\ ExporterIdle

NextLookup ==
    \/ LookupMaster
    \/ LookupRelease
    \/ SkipStrategy3
    \/ LookupArtist
    \/ StartSearch
    \/ SearchArtist(SeqsUpTo(Scores, MaxCands))
    \/ SearchRefused
    \/ SortResults
    \/ HandleResults

SpecLookup == InitLookup /\ [][NextLookup]_vars

\* add_release_groups_to_collection alone, on a list of any length.
InitChunk ==
    /\ \E n \in 0..MaxGroups :
         ImporterAt("add_release_groups", NoEntry, <<"Owned">>, 1, [i \in 1..n |-> i])
    /\ ExporterIdle

NextChunk == AddChunk \/ AddDone

SpecChunk == InitChunk /\ [][NextChunk]_vars

----------------------------------------------------------------------------
\* The exporter. A Discogs listing of `total` items is served PerPage items
\* to the page; item i of the listing is the number i.

NumPages(t) == (t + PerPage - 1) \div PerPage

\* The items on page k of a listing of t items (none beyond the last page).
Page(t, k) ==
    LET first == (k - 1) * PerPage
        size == IF t - first <= 0 THEN 0 ELSE Min(PerPage, t - first)
    IN  [i \in 1..size |-> first + i]

RECURSIVE Flatten(_, _)
\* Pages 1..n of a listing of t items, one after the other.
Flatten(t, n) == IF n = 0 THEN <<>> ELSE Flatten(t, n - 1) \o Page(t, n)

\* pagination.pages as the REST API reports it. For an empty listing the
\* source does not say whether that is 0 or 1.
ReportedPages(t) == IF t = 0 THEN {0, 1} ELSE {NumPages(t)}

\* Status codes: a page, a failure, a rate limit.
Statuses == {200, 404, 429}

\* An uncaught exception ends the export.
Crash(e) == epc' = "crashed" /\ eerr' = e

\* self._get(url) is called, to return to `back`.
CallGet(l, p, back) ==
    /\ url' = [listing |-> l, pagenum |-> p]
    /\ ret_to' = back
    /\ depth' = 0
    /\ slept' = 0
    /\ resp' = 0
    /\ epc' = "get_request"

\* A variant of line 28 that never sees a rate limit.
RateLimitedNever(status) == FALSE
\* _get, line 28
RateLimited(status) == status = 429

\* A variant of line 165 that stops one page early.
RestStopEarly(p, n) == p + 1 >= n
\* DiscogsRestClient._iter_pages, line 165
RestStop(p, n) == p = n

\* export, lines 248-249, and DiscogsRestClient.__init__, line 152: identity().
ExportStart ==
    /\ epc = "export"
    /\ CallGet("identity", 0, "identity_ret")
    /\ UNCHANGED <<pagenum, all_items, release_info, requested, eerr, listing, total,
                   pages, impVars>>

\* _get, lines 27-28: the request, and Discogs answering it.
GetRequest ==
    /\ epc = "get_request"
    /\ \E status \in Statuses :
         /\ status = 429 => depth < MaxRetries
         /\ resp' = status
         /\ epc' = IF RateLimited(status) THEN "get_sleep" ELSE "get_return"
    /\ UNCHANGED <<ret_to, url, depth, slept, pagenum, all_items, release_info, requested,
                   eerr, listing, total, pages, impVars>>

\* _get, lines 29-32: sleep 60 seconds, then _get(url) again, one call deeper.
GetSleep ==
    /\ epc = "get_sleep"
    /\ slept' = slept + 60
    /\ depth' = depth + 1
    /\ epc' = "get_request"
    /\ UNCHANGED <<ret_to, url, resp, pagenum, all_items, release_info, requested, eerr,
                   listing, total, pages, impVars>>

\* _get, line 33 (and line 32 in every call around it): resp goes to the caller.
GetReturn ==
    /\ epc = "get_return"
    /\ epc' = ret_to
    /\ UNCHANGED <<ret_to, url, resp, depth, slept, pagenum, all_items, release_info,
                   requested, eerr, listing, total, pages, impVars>>

\* DiscogsRestClient.__init__, line 152: ["username"] of the answer; then
\* export_release_ratings, lines 231, 138, 123-124, on a ratings listing of any size.
IdentityReturn ==
    /\ epc = "identity_ret"
    /\ IF resp = 200
         THEN /\ epc' = "html_loop"
              /\ listing' = "ratings"
              /\ \E t \in 0..MaxItems : total' = t
              /\ pagenum' = 1
              /\ all_items' = <<>>
              /\ requested' = <<>>
              /\ eerr' = eerr
         ELSE /\ Crash("KeyError")
              /\ UNCHANGED <<listing, total, pagenum, all_items, requested>>
    /\ UNCHANGED <<ret_to, url, resp, depth, slept, release_info, pages, impVars>>

\* DiscogsHtmlClient._iter_pages, line 126: api_func(self.username, pagenum).
HtmlFetch ==
    /\ epc = "html_loop"
    /\ requested' = Append(requested, pagenum)
    /\ CallGet("ratings", pagenum, "html_page")
    /\ UNCHANGED <<pagenum, all_items, release_info, eerr, listing, total, pages,
                   impVars>>

\* DiscogsHtmlClient._iter_pages, lines 128-133: the rows of the page; a
\* page that is no ratings table has none.
HtmlPage ==
    /\ epc = "html_page"
    /\ LET page_items == IF resp = 200 THEN Page(total, url.pagenum) ELSE <<>> IN
       IF page_items = <<>>
       THEN /\ epc' = "html_done"
            /\ UNCHANGED <<all_items, pagenum>>
       ELSE /\ all_items' = all_items \o page_items
            /\ pagenum' = pagenum + 1
            /\ epc' = "html_loop"
    /\ UNCHANGED <<ret_to, url, resp, depth, slept, release_info, requested, eerr,
                   listing, total, pages, impVars>>

\* A REST listing of any size is about to be exported.
StartRest(l) ==
    /\ listing' = l
    /\ \E t \in 0..MaxItems : \E n \in ReportedPages(t) : total' = t /\ pages' = n
    /\ pagenum' = 1
    /\ release_info' = <<>>
    /\ requested' = <<>>
    /\ epc' = "rest_loop"

\* export_release_ratings, lines 140-146 and 233-245: the file is written;
\* with include_master every entry goes to _get_master_url, which reads the
\* names rest_client and relase_info that it does not have. Then export,
\* line 252.
RatingsWritten ==
    /\ epc = "html_done"
    /\ \E include_master \in BOOLEAN :
         IF include_master /\ all_items # <<>>
         THEN /\ Crash("NameError")
              /\ UNCHANGED <<listing, total, pages, pagenum, release_info, requested>>
         ELSE /\ StartRest("collection")
              /\ eerr' = eerr
    /\ UNCHANGED <<ret_to, url, resp, depth, slept, all_items, impVars>>

\* DiscogsRestClient._iter_pages, line 161: api_func(self.username, pagenum).
RestFetch ==
    /\ epc = "rest_loop"
    /\ requested' = IF pagenum <= MaxPagenum THEN Append(requested, pagenum)
                                             ELSE requested
    /\ CallGet(listing, pagenum, "rest_page")
    /\ UNCHANGED <<pagenum, all_items, release_info, eerr, listing, total, pages,
                   impVars>>

\* DiscogsRestClient._iter_pages, lines 162-168: the entries of the page are
\* yielded (a failure's JSON has no such key), then the test of the page count.
\* Every page number above MaxPagenum stands as MaxPagenum + 1: all of them
\* lie past the listing and past every page count reported for it.
RestPage ==
    /\ epc = "rest_page"
    /\ IF resp # 200
         THEN /\ Crash("KeyError")
              /\ UNCHANGED <<release_info, pagenum>>
         ELSE /\ release_info' = release_info \o Page(total, url.pagenum)
              /\ eerr' = eerr
              /\ IF RestStop(pagenum, pages)
                   THEN epc' = "rest_done" /\ pagenum' = pagenum
                   ELSE epc' = "rest_loop" /\ pagenum' = Min(pagenum + 1, MaxPagenum + 1)
    /\ UNCHANGED <<ret_to, url, resp, depth, slept, all_items, requested, listing, total,
                   pages, impVars>>

\* export_collection, lines 205-210, then export, line 253.
CollectionWritten ==
    /\ epc = "rest_done"
    /\ listing = "collection"
    /\ StartRest("wantlist")
    /\ UNCHANGED <<ret_to, url, resp, depth, slept, all_items, eerr, impVars>>

\* export_wantlist, lines 215-220: the last file is written.
WantlistWritten ==
    /\ epc = "rest_done"
    /\ listing = "wantlist"
    /\ epc' = "exported"
    /\ UNCHANGED <<ret_to, url, resp, depth, slept, pagenum, all_items, release_info,
                   requested, eerr, listing, total, pages, impVars>>

\* export from its first line; the importer does not run.
InitExport ==
    /\ ImporterAt("idle", NoEntry, <<>>, NULL, <<>>)
    /\ epc = "export"
    /\ ret_to = "none" /\ url = NoUrl /\ resp = 0 /\ depth = 0 /\ slept = 0
    /\ pagenum = 1 /\ all_items = <<>> /\ release_info = <<>> /\ requested = <<>>
    /\ eerr = "none" /\ listing = "none" /\ total = 0 /\ pages = 0

NextExport ==
    \/ ExportStart
    \/ GetRequest
    \/ GetSleep
    \/ GetReturn
    \/ IdentityReturn
    \/ HtmlFetch
    \/ HtmlPage
    \/ RatingsWritten
    \/ RestFetch
    \/ RestPage
    \/ CollectionWritten
    \/ WantlistWritten

SpecExport == InitExport /\ [][NextExport]_vars

\* The exporter is one sequential program: a step it can take, it takes.
SpecExportLive == SpecExport /\ WF_vars(NextExport)

----------------------------------------------------------------------------
\* What the claims speak of, read off the call history.

InLookup == pc \in {"lookup_master", "lookup_release", "lookup_artists", "search",
                    "results", "return", "raised"}

SearchCalls == SelectSeq(calls, LAMBDA c : c.fn = "search_release_groups")

RECURSIVE Candidates(_, _)
\* Every release group the searches from the a-th on have returned, in order.
Candidates(searches, a) ==
    IF a > Len(searches) THEN <<>>
    ELSE ReleaseGroupList(a, searches[a].scores) \o Candidates(searches, a + 1)

AllCandidates == Candidates(SearchCalls, 1)
Above95 == SelectSeq(AllCandidates, LAMBDA rg : rg["ext:score"] > 95)
Qualifying == SelectSeq(AllCandidates, LAMBDA rg : rg["ext:score"] >= 75)

\* Strategies 1 and 2 ran and found nothing.
Strategies12Missed ==
    /\ \A i \in DOMAIN calls :
         calls[i].fn \in {"browse_urls:release-group", "browse_urls:release"}
            => calls[i].ret = NULL
    /\ \E i \in DOMAIN calls : calls[i].fn = "browse_urls:release"

\* Every artist of the entry resolved, and every search was made and answered.
ArtistsResolved ==
    /\ Len(artist_ids) = discog_entry.artists
    /\ \A i \in DOMAIN artist_ids : artist_ids[i] # NULL

\* The loop of search_release_group_by_artists ran to its end.
SearchLoopDone ==
    /\ pc \in {"search", "results", "return", "raised"}
    /\ artno > Len(artist_ids)
    /\ Len(SearchCalls) = Len(artist_ids)
    /\ \A i \in DOMAIN SearchCalls : SearchCalls[i].scores # <<>>

----------------------------------------------------------------------------
\* C1: once the external-link lookup of the record's master_url has yielded a
\* release-group id, that lookup stays the only call made for the record
\* (no release-URL lookup, no get_release_by_id, no artist lookup, no
\* search), nothing is raised, and the id is the result.
C1_ShortCircuit ==
    (/\ InLookup
     /\ calls # <<>>
     /\ calls[1].fn = "browse_urls:release-group"
     /\ calls[1].ret # NULL)
    => /\ Len(calls) = 1
       /\ pc # "raised"
       /\ master_id = calls[1].ret

C1_Witness ==
    /\ pc = "return"
    /\ discog_entry.master_url
    /\ Len(calls) = 1
    /\ calls[1].fn = "browse_urls:release-group"
    /\ calls[1].ret # NULL
    /\ master_id = calls[1].ret

\* C2: whenever a search for a resolved artist has returned a list in which
\* exactly one candidate scores above 95, at whatever position, the search
\* function returns at once, and returns that candidate alone.
C2_AnyAbove95Returned ==
    (/\ InLookup
     /\ \A i \in DOMAIN SearchCalls : SearchCalls[i].arg # NULL
     /\ Len(Above95) = 1)
    => /\ pc \in {"results", "return"}
       /\ results = <<release_group_info(Above95[1])>>

\* C3: when strategies 1 and 2 found nothing and the searches for the (all
\* resolved) artists returned exactly one candidate scoring at least 75 and
\* none above 95, lookup_master_mbid raises nothing and returns that
\* candidate's id.
C3_SingleQualifierAccepted ==
    (/\ Strategies12Missed
     /\ ArtistsResolved
     /\ SearchLoopDone
     /\ Len(Qualifying) = 1
     /\ Above95 = <<>>)
    => /\ pc # "raised"
       /\ pc = "return" => master_id = Qualifying[1]["id"]

\* C4: when strategies 1 and 2 found nothing and the searches returned two
\* or more candidates scoring at least 75 and none above 95, the run does
\* not abort, and once lookup_master_mbid has returned its result is None
\* and it has printed all those candidates in descending order of score.
C4_AmbiguousReported ==
    (/\ caller \in {"ratings", "collection"}
     /\ Strategies12Missed
     /\ ArtistsResolved
     /\ SearchLoopDone
     /\ Len(Qualifying) >= 2
     /\ Above95 = <<>>)
    => /\ pc # "raised"
       /\ pc = "return" =>
            /\ master_id = NULL
            /\ printed = [i \in DOMAIN Qualifying |-> SortedDesc(Qualifying)[i]["id"]]

\* C5: when add_release_groups_to_collection has gone through a list of n
\* identifiers it has made ceil(n / 200) PUT requests, none with more than
\* 200 identifiers, and every position of the list is in exactly one of them.
C5_ChunksPartition ==
    pc = "added" =>
        LET n == Len(release_groups) IN
        /\ Len(puts) = (n + chunk_size - 1) \div chunk_size
        /\ \A r \in DOMAIN puts : Len(puts[r].chunk) <= chunk_size
        /\ \A p \in 1..n :
             Cardinality({r \in DOMAIN puts :
                 puts[r].index < p /\ p <= puts[r].index + Len(puts[r].chunk)}) = 1

\* C6: create_collection is never called for a name one of the user's
\* collections already has, and over a run at most one collection of a name
\* is created.
C6_NoDuplicateCollection ==
    /\ \A i \in DOMAIN createLog : ~createLog[i].existed
    /\ \A nm \in Names :
         Cardinality({i \in DOMAIN createLog :
             createLog[i].name = nm /\ createLog[i].created}) <= 1

\* The wishlist import goes to the collection the owned import has created.
C6_Witness ==
    /\ pc = "resolve_loop"
    /\ target = "wishlist"
    /\ collection # NULL
    /\ Len(createLog) = 1
    /\ createLog[1].name = collection_name
    /\ createLog[1].by = "owned"
    /\ createLog[1].created

\* C8: when the master-URL lookup, the release-URL lookup and every artist
\* lookup miss and every search returns an empty list, lookup_master_mbid
\* does not raise and returns None.
C8_MissIsNoError ==
    (/\ caller \in {"ratings", "collection"}
     /\ pc \in {"return", "raised"}
     /\ err # "TypeError"
     /\ \A i \in DOMAIN calls :
          /\ calls[i].fn # "get_release_by_id"
          /\ calls[i].ret = NULL
          /\ calls[i].scores = <<>>)
    => /\ pc = "return"
       /\ master_id = NULL

\* C9: the release-group search is never made with a None artist id, and
\* there are never more searches than artists that resolved.
C9_OnlyResolvedArtistsSearched ==
    InLookup =>
      /\ \A i \in DOMAIN SearchCalls : SearchCalls[i].arg # NULL
      /\ Len(SearchCalls) <= Cardinality({i \in DOMAIN artist_ids : artist_ids[i] # NULL})

\* C7: a finished pagination loop has asked for the pages 1, 2, ... once
\* each and in this order, and its output is the items of those pages in
\* page and row order: for the HTML loop the pages before the first one
\* without rows (the whole listing when that page was served as such), for
\* the REST loop the N >= 1 pages reported, which is the whole listing.
C7_PagesFlattened ==
    /\ epc = "html_done" =>
         LET n == Len(requested) - 1 IN
         /\ requested = [i \in 1..(n + 1) |-> i]
         /\ all_items = Flatten(total, n)
         /\ resp = 200 => all_items = [i \in 1..total |-> i]
    /\ epc = "rest_done" =>
         /\ pages >= 1
         /\ requested = [i \in 1..pages |-> i]
         /\ release_info = Flatten(total, pages)
         /\ release_info = [i \in 1..total |-> i]

\* Both loops have run over three pages, the last one partial.
C7_Witness ==
    /\ epc = "rest_done"
    /\ total = MaxItems
    /\ total % PerPage # 0
    /\ Len(requested) >= 3
    /\ Len(release_info) = MaxItems
    /\ Len(all_items) = MaxItems

\* C10: in _get, a 429 answer leads to a 60-second sleep and then to the
\* same request again, however many came before; while _get runs the page
\* number and the items gathered do not change; what _get hands to its
\* caller is never a 429; and an answer that is no 429 is the one returned.
C10_RetryOn429 ==
    /\ [](epc \in {"identity_ret", "html_page", "rest_page"} => resp # 429)
    /\ [](epc = "get_sleep" => resp = 429 /\ ENABLED GetSleep)
    /\ [][epc = "get_request" /\ resp' = 429 => epc' = "get_sleep"]_vars
    /\ [][epc = "get_sleep" =>
            /\ epc' = "get_request"
            /\ url' = url
            /\ slept' = slept + 60]_vars
    /\ [][(epc \in {"get_request", "get_sleep", "get_return"}) =>
            UNCHANGED <<pagenum, all_items, release_info, requested>>]_vars
    /\ [][epc = "get_request" /\ resp' # 429 => epc' = "get_return"]_vars
    /\ [][epc = "get_return" => epc' = ret_to /\ resp' = resp]_vars

\* A page came back after two rate limits.
C10_Witness ==
    /\ epc = "rest_page"
    /\ resp = 200
    /\ depth = MaxRetries
    /\ slept = 60 * MaxRetries
    /\ url.pagenum = pagenum

\* C11: when every answer of Discogs is a page (no 429, no failure), a REST
\* pagination loop that has started reaches its stop condition, whatever
\* page count the answers report, a count of 0 included.
C11_RestLoopTerminates ==
    [](resp \in {0, 200}) => ((epc = "rest_loop") ~> (epc = "rest_done"))

====
